---- MODULE Spec2Model ----
(***************************************************************************)
(* A model of libvirt/utils_net.go: the address-range computation          *)
(* (getNetMaskWithMax16Bits, networkRange) and the identifier generators   *)
(* (randomMACAddress, randomPort) that draw from the process-wide          *)
(* math/rand generator.                                                    *)
(*                                                                         *)
(* Byte slices (net.IP, net.IPMask, []byte) are sequences of 0..255,       *)
(* indexed from 1 where Go indexes from 0.  A nil slice is the empty       *)
(* sequence.                                                               *)
(***************************************************************************)
EXTENDS Integers, Sequences, FiniteSets, TLC

VARIABLES
    network,    \* the *net.IPNet handed to networkRange: [IP, Mask]
    rangeOut,   \* what networkRange returned (or that it panicked)
    zeroIP,     \* the bytes behind net.IPv4zero (its last 4) and net.IPv6zero
    capOut,     \* results of applying getNetMaskWithMax16Bits repeatedly
    genOut,     \* result of one sequential call of a generator
    clock,      \* the reading time.Now().UnixNano() gives
    rng,        \* the process-wide math/rand source
    stream,     \* the values the source has yielded, per (seed, position)
    pc,         \* per goroutine: where it is in its call
    mySeed,     \* per goroutine: the clock reading its call seeded with
    log         \* the calls that returned, in order of return

vars == <<network, rangeOut, zeroIP, capOut, genOut, clock, rng, stream, pc, mySeed, log>>

Nil == <<>>

-----------------------------------------------------------------------------
(* Byte arithmetic: Go's &, | and ^ on uint8.                              *)

RECURSIVE ByteAnd(_, _)
ByteAnd(a, b) ==
    IF a = 0 \/ b = 0 THEN 0
    ELSE (a % 2) * (b % 2) + 2 * ByteAnd(a \div 2, b \div 2)

RECURSIVE ByteOr(_, _)
ByteOr(a, b) ==
    IF a = 0 THEN b
    ELSE IF b = 0 THEN a
    ELSE (IF a % 2 = 1 \/ b % 2 = 1 THEN 1 ELSE 0) + 2 * ByteOr(a \div 2, b \div 2)

ByteNot(a) == 255 - a

\* 1 << n, for the shifts within a byte.
Pow2(n) == <<1, 2, 4, 8, 16, 32, 64, 128, 256>>[n + 1]

-----------------------------------------------------------------------------
(* The parts of Go's package net that networkRange calls.                  *)

IPv4len == 4
IPv6len == 16

v4InV6Prefix == <<0, 0, 0, 0, 0, 0, 0, 0, 0, 0, 255, 255>>

\* net.IP.To4: the 4-byte form of an IPv4 address, nil for anything else.
To4(ip) ==
    IF Len(ip) = IPv4len THEN ip
    ELSE IF Len(ip) = IPv6len /\ SubSeq(ip, 1, 12) = v4InV6Prefix
         THEN SubSeq(ip, 13, 16)
         ELSE Nil

\* net.IP.To16: the 16-byte form, nil when the length is neither 4 nor 16.
To16(ip) ==
    IF Len(ip) = IPv4len THEN v4InV6Prefix \o ip
    ELSE IF Len(ip) = IPv6len THEN ip
    ELSE Nil

allFF(b) == \A i \in 1..Len(b) : b[i] = 255

\* net.IP.Mask: nil when, after the 4-in-16 adjustments, the lengths differ.
IPMask(ip, mask) ==
    LET m1 == IF Len(mask) = IPv6len /\ Len(ip) = IPv4len /\ allFF(SubSeq(mask, 1, 12))
              THEN SubSeq(mask, 13, 16) ELSE mask
        i1 == IF Len(m1) = IPv4len /\ Len(ip) = IPv6len /\ SubSeq(ip, 1, 12) = v4InV6Prefix
              THEN SubSeq(ip, 13, 16) ELSE ip
    IN  IF Len(i1) # Len(m1) THEN Nil
        ELSE [i \in 1..Len(i1) |-> ByteAnd(i1[i], m1[i])]

\* The leading one bits of a byte, or -1 when a one follows a zero.
RECURSIVE leadingOnes(_, _)
leadingOnes(v, n) ==
    IF v >= 128 THEN leadingOnes((2 * v) % 256, n + 1)
    ELSE IF v # 0 THEN -1
    ELSE n

\* net.simpleMaskLength: the prefix length, -1 for a mask that is no prefix.
RECURSIVE simpleMaskLength(_, _)
simpleMaskLength(mask, i) ==
    IF i > Len(mask) THEN 0
    ELSE IF mask[i] = 255
         THEN LET rest == simpleMaskLength(mask, i + 1)
              IN  IF rest = -1 THEN -1 ELSE 8 + rest
         ELSE LET n == leadingOnes(mask[i], 0)
              IN  IF n = -1 THEN -1
                  ELSE IF \E j \in (i + 1)..Len(mask) : mask[j] # 0 THEN -1
                  ELSE n

\* net.IPMask.Size: <<ones, bits>>, <<0, 0>> for a mask that is no prefix.
Size(m) ==
    LET ones == simpleMaskLength(m, 1)
    IN  IF ones = -1 THEN <<0, 0>> ELSE <<ones, 8 * Len(m)>>

\* net.CIDRMask: ones one bits followed by zeros, bits wide.
CIDRMask(ones, bits) ==
    IF bits \notin {8 * IPv4len, 8 * IPv6len} \/ ones < 0 \/ ones > bits THEN Nil
    ELSE [i \in 1..(bits \div 8) |->
            LET n == ones - 8 * (i - 1)
            IN  IF n >= 8 THEN 255
                ELSE IF n <= 0 THEN 0
                ELSE 256 - Pow2(8 - n)]

-----------------------------------------------------------------------------
(* getNetMaskWithMax16Bits and networkRange.                               *)

getNetMaskWithMax16Bits_v4only(m) ==
    LET ones == Size(m)[1]
        bits == Size(m)[2]
    IN  IF bits - ones > 16 THEN CIDRMask(32 - 16, 32) ELSE m

getNetMaskWithMax16Bits(m) ==
    LET ones == Size(m)[1]
        bits == Size(m)[2]
    IN  IF bits - ones > 16
        THEN IF bits = 128 THEN CIDRMask(128 - 16, 128)
                           ELSE CIDRMask(32 - 16, 32)
        ELSE m

NoRange == [kind |-> "none", firstIP |-> Nil, lastIP |-> Nil]

\* firstIP masked with the capped mask instead of the network's own.
firstIPOf_capped(netIP, mask) == IPMask(netIP, getNetMaskWithMax16Bits(mask))

\* firstIP := netIP.Mask(network.Mask), line 75.
firstIPOf(netIP, mask) == IPMask(netIP, mask)

\* netIP[i] & ^intMask[i]: the host bits cleared, not set.
lastIPByte_and(netIP, intMask, i) == ByteAnd(netIP[i], ByteNot(intMask[i]))

\* netIP[i] | ^intMask[i], line 82.
lastIPByte(netIP, intMask, i) == ByteOr(netIP[i], ByteNot(intMask[i]))

Min3(a, b, c) ==
    IF a <= b /\ a <= c THEN a ELSE IF b <= c THEN b ELSE c

\* networkRange(n), zero being the bytes behind net.IPv4zero and
\* net.IPv6zero.  net.IPv4zero.To4() and net.IPv6zero.To16() return slices
\* of those package variables, not copies, so the loop of lines 81-83
\* writes lastIP into them.  The loop indexes netIP and intMask up to
\* len(lastIP): an index past the end of either is a run-time panic, the
\* bytes before it already written.
networkRange(n, zero) ==
    LET ip4     == To4(n.IP)
        netIP   == IF ip4 = Nil THEN To16(n.IP) ELSE ip4
        lastIP0 == IF ip4 = Nil THEN zero.v6 ELSE zero.v4
        firstIP == firstIPOf(netIP, n.Mask)
        intMask == getNetMaskWithMax16Bits(n.Mask)
        done    == Min3(Len(lastIP0), Len(netIP), Len(intMask))
        lastIP  == [i \in 1..Len(lastIP0) |->
                      IF i <= done THEN lastIPByte(netIP, intMask, i) ELSE lastIP0[i]]
    IN  [out  |-> IF done < Len(lastIP0)
                  THEN [kind |-> "panic", firstIP |-> Nil, lastIP |-> Nil]
                  ELSE [kind |-> "ok", firstIP |-> firstIP, lastIP |-> lastIP],
         zero |-> IF ip4 = Nil THEN [zero EXCEPT !.v6 = lastIP]
                               ELSE [zero EXCEPT !.v4 = lastIP]]

-----------------------------------------------------------------------------
(* The networks and masks the range computation is applied to.             *)

MaxCapApply == 2

ByteSamples == {0, 170, 255}

\* A mask of nbytes bytes whose first ones bits are set, built bit by bit.
InputMask(ones, nbytes) ==
    [i \in 1..nbytes |->
        LET bitAt(j) == IF 8 * (i - 1) + (7 - j) < ones THEN Pow2(j) ELSE 0
        IN  bitAt(0) + bitAt(1) + bitAt(2) + bitAt(3)
          + bitAt(4) + bitAt(5) + bitAt(6) + bitAt(7)]

PrefixMasks ==
    {InputMask(n, 4) : n \in 0..32} \cup {InputMask(n, 16) : n \in 0..128}

MalformedMasks ==
    { Nil,
      <<255, 0, 255, 0>>,
      <<255, 255, 255, 1>>,
      <<255, 255, 0, 0, 0, 0, 0, 0>>,
      [i \in 1..16 |-> IF i = 16 THEN 1 ELSE 0],
      [i \in 1..16 |-> IF i = 2 THEN 0 ELSE 255] }

InputMasks == PrefixMasks \cup MalformedMasks

IPv4Inputs ==
    {<<a, b, c, d>> : a \in ByteSamples, b \in ByteSamples,
                      c \in ByteSamples, d \in ByteSamples}

\* 16-byte addresses, the 4-in-16 form of some IPv4 addresses among them.
IPv6Inputs ==
    {[i \in 1..16 |-> IF i <= p THEN a ELSE b] :
        p \in 0..16, a \in ByteSamples, b \in ByteSamples}
    \cup {v4InV6Prefix \o <<a, a, b, b>> : a \in ByteSamples, b \in ByteSamples}

InputIPs == IPv4Inputs \cup IPv6Inputs \cup {Nil}

ZeroIPs == [v4 |-> <<0, 0, 0, 0>>, v6 |-> [i \in 1..16 |-> 0]]

InitRange ==
    /\ network \in [IP : InputIPs, Mask : InputMasks]
    /\ rangeOut = NoRange
    /\ zeroIP = ZeroIPs
    /\ capOut = <<>>

\* networkRange(network)
CallNetworkRange ==
    /\ rangeOut.kind = "none"
    /\ rangeOut' = networkRange(network, zeroIP).out
    /\ zeroIP' = networkRange(network, zeroIP).zero
    /\ UNCHANGED <<network, capOut, genOut, clock, rng, stream, pc, mySeed, log>>

\* getNetMaskWithMax16Bits, applied to the network's mask and then to its
\* own result.
CallGetNetMask ==
    /\ Len(capOut) < MaxCapApply
    /\ capOut' = Append(capOut,
                    getNetMaskWithMax16Bits(IF capOut = <<>> THEN network.Mask
                                            ELSE capOut[Len(capOut)]))
    /\ UNCHANGED <<network, rangeOut, zeroIP, genOut, clock, rng, stream, pc, mySeed, log>>

-----------------------------------------------------------------------------
(* randomMACAddress and randomPort, given what math/rand yields.           *)

minPort == 1024
maxPort == 65535

NoErr   == "nil"
ReadErr == "read error"

HexDigits ==
    <<"0", "1", "2", "3", "4", "5", "6", "7", "8", "9", "a", "b", "c", "d", "e", "f">>

\* fmt's %02x of a byte: two lowercase hexadecimal digits.
Hex2(b) == <<HexDigits[(b \div 16) + 1], HexDigits[(b % 16) + 1]>>

\* fmt.Sprintf("52:54:00:%02x:%02x:%02x", b0, b1, b2), a string as the
\* sequence of its characters.
SprintfMAC(b0, b1, b2) ==
    <<"5", "2", ":", "5", "4", ":", "0", "0", ":">>
        \o Hex2(b0) \o <<":">> \o Hex2(b1) \o <<":">> \o Hex2(b2)

\* Without the substitution of lines 34-36.
randomMACAddress_noSubst(buf, err) ==
    IF err # NoErr THEN [mac |-> <<>>, err |-> err]
    ELSE LET b0 == ByteOr(ByteAnd(ByteOr(buf[1], 2), 254), 2)
         IN  [mac |-> SprintfMAC(b0, buf[2], buf[3]), err |-> NoErr]

\* Without the error check of lines 24-26.
randomMACAddress_errIgnored(buf, err) ==
    LET b0 == ByteOr(ByteAnd(ByteOr(buf[1], 2), 254), 2)
        b  == IF b0 = 254 THEN 238 ELSE b0
    IN  [mac |-> SprintfMAC(b, buf[2], buf[3]), err |-> NoErr]

\* randomMACAddress from line 23 on: buf and err are what rand.Read left
\* in the buffer and returned.
randomMACAddress(buf, err) ==
    IF err # NoErr THEN [mac |-> <<>>, err |-> err]
    ELSE LET b0 == ByteOr(ByteAnd(ByteOr(buf[1], 2), 254), 2)
             b  == IF b0 = 254 THEN 238 ELSE b0
         IN  [mac |-> SprintfMAC(b, buf[2], buf[3]), err |-> NoErr]

randomPortN_inclusive == maxPort - minPort + 1

\* The argument of rand.Intn, which yields a value in [0, n).
randomPortN == maxPort - minPort

\* randomPort, r being what rand.Intn returned.
randomPort(r) == r + minPort

NoGen == [kind |-> "none", port |-> 0, buf |-> Nil, readErr |-> NoErr,
          mac |-> <<>>, err |-> NoErr]

\* What rand.Read can leave in the 3-byte buffer: every value of each byte,
\* beside a few values of the other two.
ReadBufs ==
    {<<a, b, c>> : a \in 0..255, b \in ByteSamples, c \in ByteSamples}
    \cup {<<a, b, c>> : a \in ByteSamples, b \in 0..255, c \in ByteSamples}
    \cup {<<a, b, c>> : a \in ByteSamples, b \in ByteSamples, c \in 0..255}

InitGen == genOut = NoGen

\* One call of randomPort by a single goroutine.
GenRandomPort ==
    /\ genOut.kind = "none"
    /\ \E r \in 0..(randomPortN - 1) :
          genOut' = [NoGen EXCEPT !.kind = "port", !.port = randomPort(r)]
    /\ UNCHANGED <<network, rangeOut, zeroIP, capOut, clock, rng, stream, pc, mySeed, log>>

\* One call of randomMACAddress by a single goroutine.
GenRandomMAC ==
    /\ genOut.kind = "none"
    /\ \E buf \in ReadBufs, e \in {NoErr, ReadErr} :
          LET r == randomMACAddress(buf, e)
          IN  genOut' = [NoGen EXCEPT !.kind = "mac", !.buf = buf, !.readErr = e,
                                      !.mac = r.mac, !.err = r.err]
    /\ UNCHANGED <<network, rangeOut, zeroIP, capOut, clock, rng, stream, pc, mySeed, log>>

-----------------------------------------------------------------------------
(* Goroutines calling randomPort and randomMACAddress concurrently.        *)
(*                                                                         *)
(* rand.Seed, rand.Intn and rand.Read each lock the process-wide source    *)
(* for their own duration only, so a call is two atomic steps: the reseed  *)
(* (lines 22, 47) and the draw (lines 23, 48).  A seeded source is         *)
(* deterministic: the value it yields is fixed by the seed and by how many *)
(* draws followed the seeding.  stream records the values yielded so far;  *)
(* a draw at a (seed, position) already in stream yields the same value    *)
(* again.                                                                  *)

MaxCalls == 3
MaxClock == 1

Procs == {"g1", "g2"}

\* What rand.Intn and rand.Read yield, a few values of each.
IntnDraws == {0, randomPortN - 1}
ReadDraws == {<<0, 0, 0>>, <<255, 170, 255>>}

InitRand ==
    /\ clock = 0
    /\ rng = [seed |-> -1, pos |-> 0, owner |-> "none"]
    /\ stream = {}
    /\ pc = [p \in Procs |-> "idle"]
    /\ mySeed = [p \in Procs |-> -1]
    /\ log = <<>>

IdleRange ==
    /\ network = [IP |-> Nil, Mask |-> Nil]
    /\ rangeOut = NoRange
    /\ zeroIP = ZeroIPs
    /\ capOut = <<>>

Started == Len(log) + Cardinality({p \in Procs : pc[p] # "idle"})

\* The values the source can yield for a draw of this kind in its present
\* state: the recorded one, or any when this state was never drawn from.
Yield(kind) ==
    LET known == {e \in stream : e.seed = rng.seed /\ e.pos = rng.pos /\ e.kind = kind}
    IN  IF known # {} THEN known
        ELSE {[seed |-> rng.seed, pos |-> rng.pos, kind |-> kind, n |-> n, buf |-> b] :
                 n \in (IF kind = "port" THEN IntnDraws ELSE {0}),
                 b \in (IF kind = "mac" THEN ReadDraws ELSE {Nil})}

\* time.Now().UnixNano() moves on.
Tick ==
    /\ clock < MaxClock
    /\ clock' = clock + 1
    /\ UNCHANGED <<network, rangeOut, zeroIP, capOut, genOut, rng, stream, pc, mySeed, log>>

\* rand.Seed(time.Now().UnixNano()), line 47.
RandomPortSeed(p) ==
    /\ pc[p] = "idle"
    /\ Started < MaxCalls
    /\ rng' = [seed |-> clock, pos |-> 0, owner |-> p]
    /\ mySeed' = [mySeed EXCEPT ![p] = clock]
    /\ pc' = [pc EXCEPT ![p] = "port"]
    /\ UNCHANGED <<network, rangeOut, zeroIP, capOut, genOut, clock, stream, log>>

\* buf := make([]byte, 3); rand.Seed(time.Now().UnixNano()), lines 21-22.
RandomMACSeed(p) ==
    /\ pc[p] = "idle"
    /\ Started < MaxCalls
    /\ rng' = [seed |-> clock, pos |-> 0, owner |-> p]
    /\ mySeed' = [mySeed EXCEPT ![p] = clock]
    /\ pc' = [pc EXCEPT ![p] = "mac"]
    /\ UNCHANGED <<network, rangeOut, zeroIP, capOut, genOut, clock, stream, log>>

Returned(p, kind, port, r) ==
    [proc |-> p, kind |-> kind, clockRead |-> mySeed[p],
     seed |-> rng.seed, pos |-> rng.pos, owner |-> rng.owner,
     port |-> port, mac |-> r.mac, err |-> r.err]

\* return rand.Intn(maxPort-minPort) + minPort, line 48.
RandomPortIntn(p) ==
    /\ pc[p] = "port"
    /\ \E y \in Yield("port") :
          /\ stream' = stream \cup {y}
          /\ log' = Append(log, Returned(p, "port", randomPort(y.n),
                                         [mac |-> <<>>, err |-> NoErr]))
    /\ rng' = [rng EXCEPT !.pos = @ + 1]
    /\ pc' = [pc EXCEPT ![p] = "idle"]
    /\ UNCHANGED <<network, rangeOut, zeroIP, capOut, genOut, clock, mySeed>>

\* rand.Read(buf) and the rest of randomMACAddress, lines 23-39.
RandomMACRead(p) ==
    /\ pc[p] = "mac"
    /\ \/ \E y \in Yield("mac") :
             /\ stream' = stream \cup {y}
             /\ rng' = [rng EXCEPT !.pos = @ + 1]
             /\ log' = Append(log, Returned(p, "mac", 0, randomMACAddress(y.buf, NoErr)))
       \/ /\ UNCHANGED <<stream, rng>>
          /\ log' = Append(log, Returned(p, "mac", 0, randomMACAddress(<<0, 0, 0>>, ReadErr)))
    /\ pc' = [pc EXCEPT ![p] = "idle"]
    /\ UNCHANGED <<network, rangeOut, zeroIP, capOut, genOut, clock, mySeed>>

-----------------------------------------------------------------------------
(* The specifications.                                                     *)

Init == IdleRange /\ InitGen /\ InitRand

Next ==
    \/ Tick
    \/ \E p \in Procs : RandomPortSeed(p)
    \/ \E p \in Procs : RandomPortIntn(p)
    \/ \E p \in Procs : RandomMACSeed(p)
    \/ \E p \in Procs : RandomMACRead(p)

\* Goroutines calling the generators concurrently.
Spec == Init /\ [][Next]_vars

NextGen == GenRandomPort \/ GenRandomMAC

\* One call of a generator by a single goroutine, over all the source can yield.
SpecGen == Init /\ [][NextGen]_vars

NextRange == CallNetworkRange \/ CallGetNetMask

InitRangeAll == InitRange /\ InitGen /\ InitRand

\* The range computation applied to each input network.
SpecRange == InitRangeAll /\ [][NextRange]_vars

-----------------------------------------------------------------------------
(* What the properties below are stated in: bits, families, ordering.      *)

BitOf(b, j) == (b \div Pow2(j)) % 2

\* Bit p of a mask, bit 0 being the most significant bit of the first byte.
MaskBit(m, p) == BitOf(m[(p \div 8) + 1], 7 - (p % 8))

\* Ones, then zeros: no bit is set after a clear one.
IsPrefixMask(m) ==
    \A p \in 1..(8 * Len(m) - 1) : MaskBit(m, p) <= MaskBit(m, p - 1)

HostBits(m) == Cardinality({p \in 0..(8 * Len(m) - 1) : MaskBit(m, p) = 0})

IsV4In16(ip) ==
    /\ Len(ip) = 16
    /\ \A i \in 1..10 : ip[i] = 0
    /\ ip[11] = 255 /\ ip[12] = 255

\* The byte width of the address's family: 4, 16, or 0 for no address.
FamilyWidth(ip) ==
    IF Len(ip) = 4 \/ IsV4In16(ip) THEN 4
    ELSE IF Len(ip) = 16 THEN 16
    ELSE 0

\* The address in its family's canonical width.
Canonical(ip) == IF IsV4In16(ip) THEN SubSeq(ip, 13, 16) ELSE ip

ValidNetwork(n) ==
    /\ FamilyWidth(n.IP) \in {4, 16}
    /\ Len(n.Mask) = FamilyWidth(n.IP)
    /\ IsPrefixMask(n.Mask)

\* a <= b, byte by byte from the first.
LexLeq(a, b) ==
    \A i \in 1..Len(a) : (\A j \in 1..(i - 1) : a[j] = b[j]) => a[i] <= b[i]

\* last - first as numbers, counted up to 2^20 and no further.
RECURSIVE SatDiff(_, _, _, _)
SatDiff(first, last, i, d) ==
    IF i > Len(first) THEN d
    ELSE LET e == 256 * d + (last[i] - first[i])
         IN  SatDiff(first, last, i + 1, IF e > 1048576 THEN 1048576 ELSE e)

Called == rangeOut.kind # "none"

-----------------------------------------------------------------------------
(* C1: for every valid network, each bit of lastIP is set exactly when it  *)
(* is set in (address AND mask) or clear in the capped mask, and the range *)
(* firstIP..lastIP holds at most 65536 addresses.                          *)
C1_LastFromMaskedAddress ==
    (Called /\ ValidNetwork(network)) =>
        LET w      == FamilyWidth(network.IP)
            addr   == Canonical(network.IP)
            capped == getNetMaskWithMax16Bits(network.Mask)
        IN  /\ rangeOut.kind = "ok"
            /\ Len(rangeOut.lastIP) = w
            /\ \A i \in 1..w : \A j \in 0..7 :
                  (BitOf(rangeOut.lastIP[i], j) = 1) <=>
                     \/ (BitOf(addr[i], j) = 1 /\ BitOf(network.Mask[i], j) = 1)
                     \/ BitOf(capped[i], j) = 0
            /\ SatDiff(rangeOut.firstIP, rangeOut.lastIP, 1, 0) + 1 <= 65536

(* C2: networkRange given an address with a mask that does not fit it (of  *)
(* another family or width, of zero length, or no prefix mask) ends with   *)
(* an InvalidNetworkError, not with a pair of addresses and not with a     *)
(* panic.                                                                  *)
C2_InvalidNetworkFailsFast ==
    (Called /\ FamilyWidth(network.IP) # 0 /\ ~ValidNetwork(network))
        => rangeOut.kind = "InvalidNetworkError"

(* C3: for every valid network, firstIP <= lastIP byte-wise, and both have *)
(* the byte width of the network's family.                                 *)
C3_FirstLeqLast ==
    (Called /\ ValidNetwork(network)) =>
        /\ rangeOut.kind = "ok"
        /\ Len(rangeOut.firstIP) = FamilyWidth(network.IP)
        /\ Len(rangeOut.lastIP) = FamilyWidth(network.IP)
        /\ LexLeq(rangeOut.firstIP, rangeOut.lastIP)

C3_Witness ==
    /\ rangeOut.kind = "ok"
    /\ ValidNetwork(network)
    /\ FamilyWidth(network.IP) = 16
    /\ HostBits(network.Mask) > 16
    /\ rangeOut.firstIP # rangeOut.lastIP

(* C4: for every valid network, firstIP is the byte-wise AND of the        *)
(* address, in its family's width, with the network's own mask.            *)
C4_FirstIsMasked ==
    (Called /\ ValidNetwork(network)) =>
        LET w    == FamilyWidth(network.IP)
            addr == Canonical(network.IP)
        IN  /\ rangeOut.kind = "ok"
            /\ Len(rangeOut.firstIP) = w
            /\ \A i \in 1..w : \A j \in 0..7 :
                  BitOf(rangeOut.firstIP[i], j)
                      = BitOf(addr[i], j) * BitOf(network.Mask[i], j)

C4_Witness ==
    /\ rangeOut.kind = "ok"
    /\ ValidNetwork(network)
    /\ HostBits(network.Mask) > 16
    /\ Len(network.IP) = 16 /\ IsV4In16(network.IP)
    /\ \E i \in 1..2 : rangeOut.firstIP[i] # Canonical(network.IP)[i]

(* C5: for every prefix mask m of 32 or 128 bits, getNetMaskWithMax16Bits  *)
(* gives the prefix mask of m's width with min(hostBits(m), 16) host bits  *)
(* (m itself when hostBits(m) <= 16), and applying it again changes        *)
(* nothing.                                                                *)
C5_CapMask ==
    (Len(capOut) >= 1 /\ Len(network.Mask) \in {4, 16} /\ IsPrefixMask(network.Mask)) =>
        LET m == network.Mask
            h == HostBits(m)
            k == IF h > 16 THEN 16 ELSE h
            c == capOut[1]
        IN  /\ Len(c) = Len(m)
            /\ \A p \in 0..(8 * Len(m) - 1) :
                  (MaskBit(c, p) = 1) <=> (p < 8 * Len(m) - k)
            /\ (h <= 16 => c = m)
            /\ \A i \in 2..Len(capOut) : capOut[i] = c

C5_Witness ==
    /\ Len(capOut) >= 2
    /\ Len(network.Mask) = 16
    /\ IsPrefixMask(network.Mask)
    /\ HostBits(network.Mask) > 16
    /\ capOut[1] # network.Mask
    /\ HostBits(capOut[2]) = 16

-----------------------------------------------------------------------------
(* Reading a MAC address back from its text.                               *)

HexVal(c) ==
    CASE c = "0" -> 0  [] c = "1" -> 1  [] c = "2" -> 2  [] c = "3" -> 3
      [] c = "4" -> 4  [] c = "5" -> 5  [] c = "6" -> 6  [] c = "7" -> 7
      [] c = "8" -> 8  [] c = "9" -> 9  [] c = "a" -> 10 [] c = "b" -> 11
      [] c = "c" -> 12 [] c = "d" -> 13 [] c = "e" -> 14 [] c = "f" -> 15
      [] OTHER -> -256

\* The octet written at characters at and at + 1; negative when they are
\* not two lowercase hexadecimal digits.
Octet(mac, at) == 16 * HexVal(mac[at]) + HexVal(mac[at + 1])

IsMACText(mac) ==
    /\ Len(mac) = 17
    /\ \A i \in {3, 6, 9, 12, 15} : mac[i] = ":"
    /\ \A i \in {1, 4, 7, 10, 13, 16} : Octet(mac, i) \in 0..255

(* C6: whatever three bytes were read, the MAC address returned starts     *)
(* 52:54:00, its fourth octet is never 0xfe and has bit 0 clear and bit 1  *)
(* set, and its fifth and sixth octets are the second and third bytes read.*)
C6_MACOctets ==
    (genOut.kind = "mac" /\ genOut.err = NoErr) =>
        /\ IsMACText(genOut.mac)
        /\ SubSeq(genOut.mac, 1, 8) = <<"5", "2", ":", "5", "4", ":", "0", "0">>
        /\ Octet(genOut.mac, 10) # 254
        /\ Octet(genOut.mac, 10) % 2 = 0
        /\ (Octet(genOut.mac, 10) \div 2) % 2 = 1
        /\ Octet(genOut.mac, 13) = genOut.buf[2]
        /\ Octet(genOut.mac, 16) = genOut.buf[3]

\* The read gave ff as first byte, which becomes fe and then ee.
C6_Witness ==
    /\ genOut.kind = "mac"
    /\ genOut.err = NoErr
    /\ genOut.buf = <<255, 170, 255>>
    /\ SubSeq(genOut.mac, 10, 17) = <<"e", "e", ":", "a", "a", ":", "f", "f">>

(* C7: every port randomPort returns is at least 1024 and below 65535.     *)
C7_PortRange ==
    genOut.kind = "port" => (1024 <= genOut.port /\ genOut.port < 65535)

\* The largest value rand.Intn can yield gives the largest port.
C7_Witness == genOut.kind = "port" /\ genOut.port = 65534

(* C9: when the read of the three bytes reports an error,                  *)
(* randomMACAddress returns that error and the empty string; when it       *)
(* reports none, a MAC address and a nil error.                            *)
C9_ReadError ==
    genOut.kind = "mac" =>
        /\ genOut.readErr # NoErr => (genOut.err = genOut.readErr /\ genOut.mac = <<>>)
        /\ genOut.readErr = NoErr => (genOut.err = NoErr /\ IsMACText(genOut.mac))

C9_Witness ==
    /\ genOut.kind = "mac"
    /\ genOut.readErr = ReadErr
    /\ genOut.err = ReadErr
    /\ genOut.mac = <<>>

-----------------------------------------------------------------------------
(* A returned call that drew from the state its own reseed left.           *)
OwnDraw(e) == e.owner = e.proc /\ e.pos = 0

(* C8: a call's result is not fixed by the clock reading it took.  When a  *)
(* call has returned a value and the next call, alone and not interleaved  *)
(* with any other, has reseeded from the same clock reading, that call can *)
(* still return a port (or a MAC address) other than the one returned      *)
(* before.                                                                 *)
C8_NotFixedByClock ==
    \A p \in Procs :
        ( /\ pc[p] # "idle"
          /\ \A q \in Procs \ {p} : pc[q] = "idle"
          /\ rng.owner = p /\ rng.pos = 0
          /\ Len(log) >= 1
          /\ log[Len(log)].kind = pc[p]
          /\ log[Len(log)].err = NoErr
          /\ OwnDraw(log[Len(log)])
          /\ log[Len(log)].clockRead = mySeed[p] )
        => ENABLED ( /\ RandomPortIntn(p) \/ RandomMACRead(p)
                     /\ log'[Len(log')].err = NoErr
                     /\ \/ log'[Len(log')].port # log[Len(log)].port
                        \/ log'[Len(log')].mac # log[Len(log)].mac )

(* C10: calls are serialized on the process-wide source: every call that   *)
(* returned drew from the state its own reseed left, no other call's       *)
(* reseed or draw having come between its reseed and its draw.             *)
C10_Serialized == \A i \in 1..Len(log) : OwnDraw(log[i])

====
